---- MODULE Spec2Model ----
(***************************************************************************)
(* Model of the Utopia deployer (src/deployer.py): the deploy / backup /   *)
(* rollback engine over deploy_dir, backup_dir and source_dir.             *)
(*                                                                         *)
(* Time is a clock of fine ticks.  datetime.now() formatted with second    *)
(* resolution is Second(clock); a directory modification time (st_mtime)   *)
(* is the tick of the modification.  Every deploy() or rollback() call     *)
(* takes one tick, so two calls never stamp the same mtime, while          *)
(* TicksPerSec calls fit in one clock second.                              *)
(*                                                                         *)
(* The filesystem is taken to work: apart from the errors the code itself  *)
(* provokes (copytree onto an existing name, copytree of a non-directory,  *)
(* writing below a missing deploy_dir) no copy or remove fails.            *)
(***************************************************************************)
EXTENDS Integers, Sequences, FiniteSets, TLC

\* ---------------------------------------------------------------- bounds
MaxClock == 6          \* tick after which no call starts
TicksPerSec == 2       \* fine ticks in one clock second
MaxBackupsBound == 2   \* largest configured max_backups
MaxHooks == 2          \* longest hook list of a phase

\* ------------------------------------------------------------- vocabulary
Phases == {"pre_deploy", "post_deploy", "pre_rollback", "post_rollback"}
Commands == {"h1", "h2"}

NoBackup == <<"None", 0>>
NoName == <<"None", 0>>
StrayName == <<"notes.txt", 0>>
MissingName == <<"backup_missing", 0>>
NoVersion == "None"
Versions == {NoVersion, "", "1.0.0"}

\* f"backup_{timestamp}" with timestamp = now().strftime("%Y%m%d_%H%M%S")
Second(t) == t \div TicksPerSec
BackupName(t) == <<"backup", Second(t)>>

NoMeta == [present |-> FALSE, version |-> "", timestamp |-> 0, backup |-> NoBackup]

\* entries of a source tree: <<name, kind, content>>
SourceTrees ==
  { {<<"app.py", "file", "v1">>},
    {<<"app.py", "file", "v2">>, <<"lib", "dir", "v2">>} }

\* source_dir as a deploy() call finds it: the program only reads it
NoSource == [exists |-> FALSE, items |-> {}]
Sources == {[exists |-> TRUE, items |-> t] : t \in SourceTrees} \cup {NoSource}

VARIABLES
  max_backups,   \* config "max_backups"
  hooks,         \* config "deployment_hooks": phase -> list of commands
  clock,         \* fine ticks elapsed
  deploy_dir,    \* [exists, items, meta, mtime]
  backups,       \* directories of backup_dir: records [name, mtime, items, meta, created]
  strays,        \* names of the entries of backup_dir that are not directories
  last,          \* the last call, what it found and what it returned
  hist,          \* while only deploy() calls, source present, no hook failing: their number
  view,          \* what the last status() / list_backups() / config read returned
  config         \* the configuration document: [exists, keys present in it]

vars == <<max_backups, hooks, clock, deploy_dir, backups, strays, last, hist, view, config>>

\* os.listdir(deploy_dir)
Listing(d) == IF d.meta.present THEN d.items \cup {<<".deploy_metadata.json", "file", "meta">>}
              ELSE d.items
\* os.path.exists(deploy_dir) and os.listdir(deploy_dir)
NonEmpty(d) == d.exists /\ Listing(d) # {}
\* the tree of a directory: entries, contents and the metadata descriptor
Tree(d) == [exists |-> d.exists, items |-> d.items, meta |-> d.meta]

\* ------------------------------------------------------------------ hooks
\* index of the first command whose exit status is non-zero, 0 if none
FirstFail(exits) ==
  IF \E i \in DOMAIN exits : exits[i] # 0
  THEN CHOOSE i \in DOMAIN exits : exits[i] # 0 /\ \A j \in DOMAIN exits : exits[j] # 0 => i <= j
  ELSE 0

\* variant: the loop goes on after a failing command and raises at the end
RECURSIVE RunHooksToEnd(_, _, _)
RunHooksToEnd(cmds, exits, i) ==
  IF i > Len(cmds) THEN [ran |-> <<>>, ok |-> TRUE]
  ELSE LET r == RunHooksToEnd(cmds, exits, i + 1)
       IN  [ran |-> <<cmds[i]>> \o r.ran, ok |-> r.ok /\ exits[i] = 0]

\* the for loop of _run_hooks from the i-th command on
RECURSIVE RunHooksFrom(_, _, _)
RunHooksFrom(cmds, exits, i) ==
  IF i > Len(cmds) THEN [ran |-> <<>>, ok |-> TRUE]
  ELSE IF exits[i] # 0 THEN [ran |-> <<cmds[i]>>, ok |-> FALSE]
  ELSE LET r == RunHooksFrom(cmds, exits, i + 1)
       IN  [ran |-> <<cmds[i]>> \o r.ran, ok |-> r.ok]

\* variant: the CalledProcessError is logged and not re-raised
run_hooks_swallowed(cmds, exits) == [ran |-> RunHooksFrom(cmds, exits, 1).ran, ok |-> TRUE]

\* Deployer._run_hooks: ok = FALSE stands for the re-raised CalledProcessError
run_hooks(cmds, exits) == RunHooksFrom(cmds, exits, 1)

ExitsOf(cmds) == [1..Len(cmds) -> {0, 1}]
NoHooks == [p \in Phases |-> [called |-> FALSE, ran |-> <<>>, ok |-> TRUE, fail |-> 0]]
HookRec(r, exits) == [called |-> TRUE, ran |-> r.ran, ok |-> r.ok, fail |-> FirstFail(exits)]

\* ----------------------------------------------------------------- backups
Min(a, b) == IF a < b THEN a ELSE b
Names(bs) == {b.name : b \in bs}

\* variant: backups[max_backups + 1:]
RetainedOffByOne(n, maxb) == Min(n, IF maxb < 0 THEN 0 ELSE maxb + 1)

\* backups[max_backups:] of a list of n entries leaves this many in front
Retained(n, maxb) == Min(n, IF maxb < 0 THEN 0 ELSE maxb)

\* Deployer._cleanup_old_backups: the directories sorted by mtime, newest first,
\* all after the first max_backups removed.  The sort is stable over
\* os.listdir's arbitrary order, so among equal mtimes any may be kept.
cleanup_old_backups(bs, maxb) ==
  { K \in SUBSET bs :
      /\ Cardinality(K) = Retained(Cardinality(bs), maxb)
      /\ \A k \in K : \A d \in bs \ K : k.mtime >= d.mtime }

\* variant: the listing without its os.path.isdir filter
ListDirsUnfiltered(bs, st) ==
  {[name |-> b.name, mtime |-> b.mtime] : b \in bs} \cup {[name |-> n, mtime |-> 0] : n \in st}

\* [d for d in os.listdir(backup_dir) if os.path.isdir(...)] with each one's mtime
ListDirs(bs, st) == {[name |-> b.name, mtime |-> b.mtime] : b \in bs}

\* backups[0] of sorted(..., key=os.path.getmtime, reverse=True)
MostRecent(ds) == { b \in ds : \A o \in ds : b.mtime >= o.mtime }

\* ----------------------------------------------------------- configuration
\* the keys of DeployerConfig._get_default_config
ConfigKeys == {"app_name", "deploy_dir", "source_dir", "backup_dir", "max_backups",
               "deployment_hooks"}
FullConfig == [exists |-> TRUE, keys |-> ConfigKeys]

\* the documents a configuration file may hold: any of the keys, or no file
ConfigDocuments ==
  {[exists |-> TRUE, keys |-> K] : K \in SUBSET ConfigKeys}
    \cup {[exists |-> FALSE, keys |-> {}]}

None == "None"

\* the values of _get_default_config; of the hooks, the list of each phase
DefaultValue(key) ==
  CASE key = "app_name" -> "utopia-app"
    [] key = "deploy_dir" -> "./deployments"
    [] key = "source_dir" -> "./src"
    [] key = "backup_dir" -> "./backups"
    [] key = "max_backups" -> "5"
    [] key = "deployment_hooks" -> "[]"

\* the value a document gives a key it holds
DocumentValue(key) == "document's " \o key

\* DeployerConfig._load_config: the document as parsed if the file exists,
\* else the defaults
load_config(c) ==
  IF c.exists THEN [k \in c.keys |-> DocumentValue(k)]
  ELSE [k \in ConfigKeys |-> DefaultValue(k)]

\* DeployerConfig.get: self.config.get(key, default)
get(loaded, key, default) == IF key \in DOMAIN loaded THEN loaded[key] ELSE default

\* the default the reading code passes: 5 for max_backups, {} for the hooks
\* (whose phase lists then read as []), nothing for the others
CallDefault(key) ==
  CASE key = "max_backups" -> "5"
    [] key = "deployment_hooks" -> "[]"
    [] OTHER -> None
NoView == [op |-> "none", n |-> 0, key |-> "", first |-> <<>>, result |-> <<>>,
           seen |-> <<>>]

\* ------------------------------------------------------------------- Init
InitDeploy == [exists |-> TRUE, items |-> {}, meta |-> NoMeta, mtime |-> 0]
InitLast == [op |-> "init", at |-> -1, arg |-> NoName, version |-> NoVersion,
             source |-> NoSource, result |-> TRUE, cause |-> "ok", made |-> FALSE,
             raised |-> "none", escaped |-> FALSE,
             before |-> Tree(InitDeploy), bbefore |-> {}, hook |-> NoHooks]

Init ==
  /\ max_backups \in 0..MaxBackupsBound
  /\ hooks = [p \in Phases |-> <<"h1">>]
  /\ clock = 0
  /\ deploy_dir = InitDeploy
  /\ backups = {}
  /\ strays = {StrayName}
  /\ last = InitLast
  /\ hist = [n |-> 0, clean |-> TRUE]
  /\ view = NoView
  /\ config = FullConfig

\* ------------------------------------------------------------ environment
\* idle time: wait until the clock second rolls over
Tick ==
  /\ (Second(clock) + 1) * TicksPerSec <= MaxClock
  /\ clock' = (Second(clock) + 1) * TicksPerSec
  /\ UNCHANGED <<max_backups, hooks, deploy_dir, backups, strays, last, hist, view, config>>

\* Deployer.__init__ -> _ensure_directories: os.makedirs(deploy_dir, exist_ok=True)
\* (every CLI command constructs a Deployer; backup_dir is never removed)
ensure_directories ==
  /\ ~deploy_dir.exists
  /\ deploy_dir' = [exists |-> TRUE, items |-> {}, meta |-> NoMeta, mtime |-> clock]
  /\ last' = [InitLast EXCEPT !.before = Tree(deploy_dir), !.bbefore = backups]
  /\ view' = NoView
  /\ UNCHANGED <<max_backups, hooks, clock, backups, strays, hist, config>>

\* ------------------------------------------------------------- operations
\* the exceptions the steps of deploy() and rollback() raise
Exceptions == {"CalledProcessError", "FileExistsError", "NotADirectoryError",
               "FileNotFoundError"}

\* what the failing step raises; the three checks of the code that find
\* something missing return False themselves and raise nothing
Raised(op, cause) ==
  CASE cause \in {"pre_hook", "post_hook"} -> "CalledProcessError"
    [] cause = "collision" -> "FileExistsError"
    [] cause = "fs" /\ op = "rollback" -> "NotADirectoryError"
    [] cause = "fs" /\ op = "deploy" -> "FileNotFoundError"
    [] OTHER -> "none"

\* variant: the handler names OSError, which a hook's error is not
CaughtOSErrorOnly(exc) == exc \in Exceptions \ {"CalledProcessError"}

\* except Exception as e: every one of them is an Exception
Caught(exc) == exc \in Exceptions

\* variant: the handler puts back what the call found
except_handler_undo(reached, found) == found

\* except Exception as e: logger.error(...); return False -- the handler
\* leaves on disk what the steps before the failure reached
except_handler(reached, found) == reached

\* the return of a call: the value, or an exception that leaves the call
Return(op, arg, version, src, result, cause, made, hk) ==
  /\ last' = [op |-> op, at |-> clock, arg |-> arg, version |-> version,
              source |-> src, result |-> result, cause |-> cause, made |-> made,
              raised |-> Raised(op, cause),
              escaped |-> Raised(op, cause) # "none" /\ ~Caught(Raised(op, cause)),
              before |-> Tree(deploy_dir), bbefore |-> backups, hook |-> hk]
  /\ clock' = clock + 1
  /\ view' = NoView
  /\ hist' = IF hist.clean /\ op = "deploy" /\ src.exists /\ \A p \in Phases : hk[p].ok
              THEN [n |-> hist.n + 1, clean |-> TRUE]
              ELSE [n |-> 0, clean |-> FALSE]

\* the snapshot shutil.copytree(deploy_dir, backup_path) makes: copytree ends
\* with copystat(src, dst), so the backup directory carries deploy_dir's mtime
NewBackup ==
  [name |-> BackupName(clock), mtime |-> deploy_dir.mtime, items |-> deploy_dir.items,
   meta |-> deploy_dir.meta, created |-> clock, snap |-> Tree(deploy_dir)]

\* variant: copytree(..., dirs_exist_ok=True) copies over an existing name
CopytreeOverwrites(name) == FALSE

\* shutil.copytree(deploy_dir, backup_path): os.makedirs(backup_path) raises
\* FileExistsError when an entry of that name is there, before anything is copied
CopytreeRefuses(name) == name \in Names(backups) \cup strays

\* Deployer._create_backup on a non-empty deploy_dir: copytree, then prune
create_backup(bs) == cleanup_old_backups(bs \cup {NewBackup}, max_backups)

\* variant: the existence check left out
SourceFoundUnchecked(src) == TRUE

\* if not os.path.exists(source_dir): return False
SourceFound(src) == src.exists

\* the copy loop of deploy() when deploy_dir itself is missing: copytree of a
\* directory entry creates deploy_dir (os.makedirs), copy2 of a file entry and
\* the open() of the descriptor raise; os.listdir's order decides which is first
CopyOutcomes(src) ==
  IF deploy_dir.exists THEN {TRUE}
  ELSE {TRUE : x \in {i \in src.items : i[2] = "dir"}}
       \cup {FALSE : x \in {i \in src.items : i[2] = "file"}}
       \cup (IF src.items = {} THEN {FALSE} ELSE {})

\* variant: the version is stored as passed
VersionAsGiven(version) == version

\* "version": version or "latest" -- None and the empty string are both falsy
VersionOrLatest(version) ==
  IF version = NoVersion \/ version = "" THEN "latest" ELSE version

\* the descriptor deploy() writes
Descriptor(version, ref) ==
  [present |-> TRUE, version |-> VersionOrLatest(version), timestamp |-> clock,
   backup |-> ref]

\* variant: the clearing loop left out, the source copied over what is there
DeployedNoClear(version, ref, src) ==
  [exists |-> TRUE, items |-> deploy_dir.items \cup src.items,
   meta |-> Descriptor(version, ref), mtime |-> clock]

\* deploy_dir cleared, source copied in, the metadata descriptor written
Deployed(version, ref, src) ==
  [exists |-> TRUE, items |-> src.items, meta |-> Descriptor(version, ref),
   mtime |-> clock]

\* Deployer.deploy; the version passed is on record from the step that uses
\* it, the writing of the descriptor
deploy ==
  /\ clock < MaxClock
  /\ UNCHANGED <<max_backups, hooks, strays, config>>
  /\ \E src \in Sources :
     \E preExits \in ExitsOf(hooks["pre_deploy"]) :
       LET pre == run_hooks(hooks["pre_deploy"], preExits)
           hk1 == [NoHooks EXCEPT !["pre_deploy"] = HookRec(pre, preExits)]
           made == NonEmpty(deploy_dir)
           ref == IF made THEN BackupName(clock) ELSE NoBackup
       IN
       IF ~pre.ok THEN
         /\ Return("deploy", NoName, NoVersion, src, FALSE, "pre_hook", FALSE, hk1)
         /\ UNCHANGED <<deploy_dir, backups>>
       ELSE IF made /\ CopytreeRefuses(BackupName(clock)) THEN
         \* copytree: os.makedirs(backup_path) raises FileExistsError
         /\ Return("deploy", NoName, NoVersion, src, FALSE, "collision", FALSE, hk1)
         /\ UNCHANGED <<deploy_dir, backups>>
       ELSE
         \E kept \in (IF made THEN create_backup(backups) ELSE {backups}) :
           /\ backups' = kept
           /\ IF ~SourceFound(src) THEN
                /\ Return("deploy", NoName, NoVersion, src, FALSE, "source", made, hk1)
                /\ UNCHANGED deploy_dir
              ELSE
                \E copied \in CopyOutcomes(src) :
                  IF ~copied THEN
                    /\ Return("deploy", NoName, NoVersion, src, FALSE, "fs", made, hk1)
                    /\ UNCHANGED deploy_dir
                  ELSE
                    \E version \in Versions :
                    \E postExits \in ExitsOf(hooks["post_deploy"]) :
                      LET post == run_hooks(hooks["post_deploy"], postExits)
                          hk2 == [hk1 EXCEPT !["post_deploy"] = HookRec(post, postExits)]
                      IN /\ deploy_dir' = IF post.ok THEN Deployed(version, ref, src)
                                          ELSE except_handler(Deployed(version, ref, src),
                                                              deploy_dir)
                         /\ Return("deploy", NoName, version, src, post.ok,
                                   IF post.ok THEN "ok" ELSE "post_hook", made, hk2)

\* the names a caller may pass: a backup directory, another entry, an absent one
RollbackNames == Names(backups) \cup {StrayName, MissingName}

\* os.path.exists(os.path.join(backup_dir, backup_name))
BackupPathExists(name) == name \in Names(backups) \cup strays

\* variant: the restore stamps a descriptor of its own
RestoredWithDescriptor(b) ==
  [exists |-> TRUE, items |-> b.items,
   meta |-> [present |-> TRUE, version |-> "rollback", timestamp |-> clock,
             backup |-> b.name],
   mtime |-> clock]

\* shutil.rmtree(deploy_dir); shutil.copytree(backup_path, deploy_dir): the
\* backup's tree, its descriptor as one of the files, its mtime by copystat
Restored(b) == [exists |-> TRUE, items |-> b.items, meta |-> b.meta, mtime |-> b.mtime]

\* variant: the backup is moved into place, not copied
AfterRestoreMoved(bs, b) == bs \ {b}

\* backup_dir after the restore: copytree only reads its source
AfterRestore(bs, b) == bs

\* Deployer.rollback
rollback ==
  /\ clock < MaxClock
  /\ UNCHANGED <<max_backups, hooks, strays, config>>
  /\ \E name \in {NoName} \cup RollbackNames :
     \E preExits \in ExitsOf(hooks["pre_rollback"]) :
       LET pre == run_hooks(hooks["pre_rollback"], preExits)
           hk1 == [NoHooks EXCEPT !["pre_rollback"] = HookRec(pre, preExits)]
           dirs == ListDirs(backups, strays)
       IN
       IF ~pre.ok THEN
         /\ Return("rollback", name, NoVersion, NoSource, FALSE, "pre_hook", FALSE, hk1)
         /\ UNCHANGED <<deploy_dir, backups>>
       ELSE IF name = NoName /\ dirs = {} THEN
         /\ Return("rollback", name, NoVersion, NoSource, FALSE, "no_backups", FALSE, hk1)
         /\ UNCHANGED <<deploy_dir, backups>>
       ELSE
         \E target \in (IF name = NoName THEN Names(MostRecent(dirs)) ELSE {name}) :
           IF ~BackupPathExists(target) THEN
             /\ Return("rollback", name, NoVersion, NoSource, FALSE, "not_found", FALSE, hk1)
             /\ UNCHANGED <<deploy_dir, backups>>
           ELSE IF target \in strays THEN
             \* shutil.rmtree(deploy_dir), then copytree of a non-directory raises
             /\ deploy_dir' = [exists |-> FALSE, items |-> {}, meta |-> NoMeta, mtime |-> 0]
             /\ Return("rollback", name, NoVersion, NoSource, FALSE, "fs", FALSE, hk1)
             /\ UNCHANGED backups
           ELSE
             \E b \in {x \in backups : x.name = target} :
             \E postExits \in ExitsOf(hooks["post_rollback"]) :
               LET post == run_hooks(hooks["post_rollback"], postExits)
                   hk2 == [hk1 EXCEPT !["post_rollback"] = HookRec(post, postExits)]
               IN /\ deploy_dir' = IF post.ok THEN Restored(b)
                                   ELSE except_handler(Restored(b), deploy_dir)
                  /\ backups' = AfterRestore(backups, b)
                  /\ Return("rollback", name, NoVersion, NoSource, post.ok,
                            IF post.ok THEN "ok" ELSE "post_hook", FALSE, hk2)

\* ------------------------------------------------------------------ queries
\* Python values as status() builds them: a bool, or the list os.listdir gives
PyBool(b) == [kind |-> "bool", truth |-> b, entries |-> {}]
PyList(names) == [kind |-> "list", truth |-> names # {}, entries |-> names]

\* a and b: a when a is falsy, else b
PyAnd(a, b) == IF a.truth THEN b ELSE a

EntryNames(d) == {i[1] : i \in Listing(d)}

\* "deployed": os.path.exists(deploy_dir) and os.listdir(deploy_dir)
status_deployed(d) == PyAnd(PyBool(d.exists), PyList(EntryNames(d)))

\* "metadata": the parsed descriptor if the file exists, else None
status_metadata(d) == IF d.exists /\ d.meta.present THEN d.meta ELSE NoMeta

\* backup names are backup_YYYYMMDD_HHMMSS: string order is order of the second
NameBefore(a, b) == a[2] < b[2]

\* variant: sorted() without reverse=True
RECURSIVE SortedForward(_)
SortedForward(S) ==
  IF S = {} THEN <<>>
  ELSE LET m == CHOOSE x \in S : \A y \in S : y = x \/ NameBefore(x, y)
       IN  <<m>> \o SortedForward(S \ {m})

\* sorted(names, reverse=True)
RECURSIVE SortedReverse(_)
SortedReverse(S) ==
  IF S = {} THEN <<>>
  ELSE LET m == CHOOSE x \in S : \A y \in S : y = x \/ NameBefore(y, x)
       IN  <<m>> \o SortedReverse(S \ {m})

\* Deployer.list_backups: the directories of backup_dir, by name, descending
list_backups(bs, st) == SortedReverse({n \in Names(bs) \cup st : n \in Names(bs)})

\* "available_backups" of status(): its own listing of backup_dir
status_available_backups(bs, st) ==
  SortedReverse({n \in Names(bs) \cup st : n \notin st})

\* Deployer.status
status(d, bs, st) ==
  [deployed |-> status_deployed(d), metadata |-> status_metadata(d),
   available_backups |-> status_available_backups(bs, st)]

Next == Tick \/ ensure_directories \/ deploy \/ rollback

Spec == Init /\ [][Next]_vars

\* ------------------------------------------- the operations and the queries
MaxQueries == 2        \* longest run of one query between two changes

\* what is on disk
Fs == <<deploy_dir, backups, strays>>

\* the record of a query: its result, the first result of the run of the same
\* query it belongs to, and what was on disk when it was called
Queried(op, result) ==
  [op |-> op, n |-> IF view.op = op THEN view.n + 1 ELSE 1, key |-> "",
   first |-> IF view.op = op THEN view.first ELSE result, result |-> result,
   seen |-> Fs]

\* variant: status() makes sure of deploy_dir as the constructor does
status_call_ensuring ==
  /\ view.op = "status" => view.n < MaxQueries
  /\ view' = Queried("status", status(deploy_dir, backups, strays))
  /\ deploy_dir' = IF deploy_dir.exists THEN deploy_dir
                   ELSE [exists |-> TRUE, items |-> {}, meta |-> NoMeta, mtime |-> clock]
  /\ UNCHANGED <<max_backups, hooks, clock, backups, strays, last, hist, config>>

\* a call of Deployer.status
status_call ==
  /\ view.op = "status" => view.n < MaxQueries
  /\ view' = Queried("status", status(deploy_dir, backups, strays))
  /\ UNCHANGED <<max_backups, hooks, clock, deploy_dir, backups, strays, last, hist, config>>

\* a call of Deployer.list_backups
list_backups_call ==
  /\ view.op = "list_backups" => view.n < MaxQueries
  /\ view' = Queried("list_backups", list_backups(backups, strays))
  /\ UNCHANGED <<max_backups, hooks, clock, deploy_dir, backups, strays, last, hist, config>>

InitStatus ==
  /\ max_backups = 1
  /\ hooks = [p \in Phases |-> <<>>]
  /\ clock = 0
  /\ deploy_dir = InitDeploy
  /\ backups = {}
  /\ strays = {StrayName}
  /\ last = InitLast
  /\ hist = [n |-> 0, clean |-> TRUE]
  /\ view = NoView
  /\ config = FullConfig

NextStatus ==
  Tick \/ ensure_directories \/ deploy \/ rollback \/ status_call \/ list_backups_call

SpecStatus == InitStatus /\ [][NextStatus]_vars

\* ------------------------------------- rollback given a path, not a name
\* backup_name ".": os.path.join(backup_dir, ".") is backup_dir itself
DotName == <<".", 0>>

\* the entries of backup_dir, as the entries of a tree
BackupDirEntries ==
  {<<"backup_" \o ToString(b.name[2]), "dir", "backup">> : b \in backups}
    \cup {<<n[1], "file", "stray">> : n \in strays}

\* the mtime of backup_dir: the last time an entry was made or removed in it,
\* not before the making of any backup there
BackupDirMtimes == {t \in 0..clock : \A b \in backups : b.created <= t}

\* shutil.copytree(backup_dir, deploy_dir): no descriptor at the top
BackupDirCopy(m) ==
  [exists |-> TRUE, items |-> BackupDirEntries, meta |-> NoMeta, mtime |-> m]

\* Deployer.rollback(".") : the path exists, so deploy_dir is removed and
\* backup_dir copied into its place
rollback_backup_dir ==
  /\ clock < MaxClock
  /\ UNCHANGED <<max_backups, hooks, strays, backups, config>>
  /\ \E preExits \in ExitsOf(hooks["pre_rollback"]) :
       LET pre == run_hooks(hooks["pre_rollback"], preExits)
           hk1 == [NoHooks EXCEPT !["pre_rollback"] = HookRec(pre, preExits)]
       IN
       IF ~pre.ok THEN
         /\ Return("rollback", DotName, NoVersion, NoSource, FALSE, "pre_hook", FALSE, hk1)
         /\ UNCHANGED deploy_dir
       ELSE
         \E m \in BackupDirMtimes :
         \E postExits \in ExitsOf(hooks["post_rollback"]) :
           LET post == run_hooks(hooks["post_rollback"], postExits)
               hk2 == [hk1 EXCEPT !["post_rollback"] = HookRec(post, postExits)]
           IN /\ deploy_dir' = IF post.ok THEN BackupDirCopy(m)
                               ELSE except_handler(BackupDirCopy(m), deploy_dir)
              /\ Return("rollback", DotName, NoVersion, NoSource, post.ok,
                        IF post.ok THEN "ok" ELSE "post_hook", FALSE, hk2)

InitNames ==
  /\ max_backups = 1
  /\ hooks = [p \in Phases |-> <<"h1">>]
  /\ clock = 0
  /\ deploy_dir = InitDeploy
  /\ backups = {}
  /\ strays \in {{}, {StrayName}}
  /\ last = InitLast
  /\ hist = [n |-> 0, clean |-> TRUE]
  /\ view = NoView
  /\ config = FullConfig

NextNames == Tick \/ ensure_directories \/ deploy \/ rollback \/ rollback_backup_dir

SpecNames == InitNames /\ [][NextNames]_vars

\* -------------------------------------------------- the configuration alone
\* a read of one key from the loaded configuration
config_get ==
  /\ \E key \in ConfigKeys :
       LET r == get(load_config(config), key, CallDefault(key))
       IN  view' = [op |-> "get", n |-> 1, key |-> key, first |-> r, result |-> r,
                    seen |-> <<>>]
  /\ UNCHANGED <<max_backups, hooks, clock, deploy_dir, backups, strays, last, hist, config>>

InitConfig ==
  /\ config \in ConfigDocuments
  /\ max_backups = 0
  /\ hooks = [p \in Phases |-> <<>>]
  /\ clock = 0
  /\ deploy_dir = InitDeploy
  /\ backups = {}
  /\ strays = {}
  /\ last = InitLast
  /\ hist = [n |-> 0, clean |-> TRUE]
  /\ view = NoView

NextConfig == config_get

SpecConfig == InitConfig /\ [][NextConfig]_vars

\* ------------------------------------------------- the hook runner alone
HookLists == UNION { [1..n -> Commands] : n \in 0..MaxHooks }

InitHooks ==
  /\ max_backups = 0
  /\ \E pre \in HookLists : \E post \in HookLists :
       hooks = [p \in Phases |-> IF p \in {"pre_deploy", "pre_rollback"} THEN pre ELSE post]
  /\ clock = 0
  /\ deploy_dir = InitDeploy
  /\ backups = {}
  /\ strays = {}
  /\ last = InitLast
  /\ hist = [n |-> 0, clean |-> TRUE]
  /\ view = NoView
  /\ config = FullConfig

\* Deployer._run_hooks(hook_type)
run_phase ==
  /\ \E p \in Phases : \E exits \in ExitsOf(hooks[p]) :
       last' = [InitLast EXCEPT !.op = "run_hooks",
                  !.hook = [NoHooks EXCEPT ![p] = HookRec(run_hooks(hooks[p], exits), exits)]]
  /\ UNCHANGED <<max_backups, hooks, clock, deploy_dir, backups, strays, hist, view, config>>

NextHooks == run_phase

SpecHooks == InitHooks /\ [][NextHooks]_vars

\* ----------------------------------------------------------------- claims
\* C1: from empty deploy_dir and backup_dir, after N deploy() calls (source
\* present, no hook failing, no rollback) backup_dir holds min(N-1, max_backups)
\* backups.
C1_BackupCountAfterDeploys ==
  (hist.clean /\ hist.n >= 1) => Cardinality(backups) = Min(hist.n - 1, max_backups)

\* C2: a successful deploy() from a non-empty deploy_dir followed immediately by
\* rollback() without a name (stated here for a rollback that reports success)
\* leaves deploy_dir with the tree it had just before that deploy.
C2_RollbackRestoresPreDeployTree ==
  [][ ( /\ last.op = "deploy" /\ last.result /\ NonEmpty(last.before)
        /\ last'.at = clock /\ last'.op = "rollback" /\ last'.arg = NoName
        /\ last'.result )
      => Tree(deploy_dir') = last.before ]_vars

\* C3: after every prune the backups left are the max_backups most recently
\* created ones: none is deleted while one created earlier is retained.
C3_PruneKeepsMostRecent ==
  (last.op = "deploy" /\ last.made) =>
    LET all == {b.created : b \in last.bbefore} \cup {last.at}
        kept == {b.created : b \in backups}
    IN /\ Cardinality(kept) = Min(Cardinality(all), max_backups)
       /\ \A d \in all \ kept : \A k \in kept : k > d

\* C4: once a deploy or rollback call has returned, backup_dir holds at most
\* max_backups backup directories.
C4_BackupCountBounded == Cardinality(backups) <= max_backups

C4_Witness ==
  /\ last.op = "deploy" /\ last.made /\ max_backups >= 1
  /\ Cardinality(last.bbefore) = max_backups
  /\ Cardinality(backups) = max_backups

\* C5: deploy() while source_dir does not exist returns failure and leaves the
\* deploy_dir tree (entries and metadata descriptor) as it was.
C5_MissingSourceLeavesDeployDir ==
  (last.op = "deploy" /\ ~last.source.exists) =>
    (~last.result /\ Tree(deploy_dir) = last.before)

C5_Witness ==
  /\ last.op = "deploy" /\ ~last.source.exists /\ last.cause = "source"
  /\ NonEmpty(last.before)

\* C6: a deploy() that fails because source_dir does not exist mutates nothing:
\* deploy_dir and the set of backups are the same after the call as before.
C6_MissingSourceNoMutation ==
  (last.op = "deploy" /\ last.cause = "source") =>
    (Tree(deploy_dir) = last.before /\ backups = last.bbefore)

\* C7: rollback(name) where no backup directory named name exists (absent, or
\* not a directory) returns failure and leaves deploy_dir and the backups.
C7_UnknownBackupNoMutation ==
  (last.op = "rollback" /\ last.arg # NoName /\ last.arg \notin Names(last.bbefore)) =>
    (~last.result /\ Tree(deploy_dir) = last.before /\ backups = last.bbefore)

\* C8: rollback() without a name while backup_dir holds no backup directory
\* returns failure and mutates neither deploy_dir nor backup_dir.
C8_NoBackupsRollbackFails ==
  (last.op = "rollback" /\ last.arg = NoName /\ last.bbefore = {}) =>
    (~last.result /\ Tree(deploy_dir) = last.before /\ backups = last.bbefore)

C8_Witness ==
  /\ last.op = "rollback" /\ last.arg = NoName /\ last.bbefore = {}
  /\ last.hook["pre_rollback"].ok /\ strays # {} /\ NonEmpty(deploy_dir)

\* C9: a failing pre_deploy or pre_rollback hook aborts the call before any
\* other step: failure, deploy_dir unchanged, no backup created or pruned.
C9_PreHookFailureAborts ==
  \A p \in {"pre_deploy", "pre_rollback"} :
    (last.hook[p].called /\ last.hook[p].fail # 0) =>
      /\ ~last.result
      /\ Tree(deploy_dir) = last.before
      /\ backups = last.bbefore
      /\ \A q \in Phases \ {p} : ~last.hook[q].called

C9_Witness ==
  /\ last.op = "deploy" /\ last.hook["pre_deploy"].fail # 0
  /\ NonEmpty(deploy_dir) /\ Cardinality(backups) = max_backups /\ max_backups >= 1

\* C10: the commands of a phase run in list order up to and including the first
\* one with a non-zero exit, each once, none after it, and the phase then fails;
\* with no failing command all run and the phase succeeds (an empty list too).
C10_HooksStopAtFirstFailure ==
  \A p \in Phases :
    last.hook[p].called =>
      LET h == last.hook[p]
      IN IF h.fail = 0 THEN h.ran = hooks[p] /\ h.ok
         ELSE h.ran = SubSeq(hooks[p], 1, h.fail) /\ ~h.ok

C10_Witness ==
  \E p \in Phases :
    /\ last.hook[p].called /\ last.hook[p].fail = 1
    /\ Len(hooks[p]) >= 2 /\ hooks[p][1] # hooks[p][2]

\* C11: deploy() and rollback() end every call with a boolean: whichever step
\* fails (a hook, the backup copy, a missing source, a missing backup, a copy
\* or a remove), the call returns False and no exception leaves it; a call
\* none of whose steps failed returns True.
C11_FailureReturnsFalse ==
  last.op \in {"deploy", "rollback"} =>
    /\ ~last.escaped
    /\ last.result \in BOOLEAN
    /\ last.result = (last.cause = "ok")
    /\ (last.raised # "none") => ~last.result

\* rollback() and deploy() calls that each raised at a different step
C11_Witness ==
  /\ last.op = "deploy" /\ last.raised = "CalledProcessError" /\ last.cause = "post_hook"
  /\ ~last.result /\ ~last.escaped
  /\ \E b \in backups : b.created = last.at

\* C12: after a deploy() that returned True, deploy_dir holds exactly the
\* top-level entries of source_dir and the metadata descriptor; nothing that
\* was there before and is not in the source is left.
C12_DeployDirIsSourcePlusDescriptor ==
  (last.op = "deploy" /\ last.result) =>
    /\ deploy_dir.exists
    /\ Listing(deploy_dir) =
         last.source.items \cup {<<".deploy_metadata.json", "file", "meta">>}

\* a successful deploy over a tree that held an entry the source has not
C12_Witness ==
  /\ last.op = "deploy" /\ last.result
  /\ \E i \in last.before.items : \A j \in last.source.items : j[1] # i[1]

\* C13 as stated: after a deploy(version) that returned True the descriptor's
\* version is the version passed, or "latest" when none was passed; its backup
\* field is null exactly when deploy_dir was empty at the start, and otherwise
\* names the backup this deploy made.
C13_VersionAsPassed ==
  (last.op = "deploy" /\ last.result) =>
    /\ deploy_dir.meta.present
    /\ deploy_dir.meta.version =
         (IF last.version = NoVersion THEN "latest" ELSE last.version)
    /\ (deploy_dir.meta.backup = NoBackup) <=> ~NonEmpty(last.before)
    /\ NonEmpty(last.before) => deploy_dir.meta.backup = BackupName(last.at)

\* C13 amended: the descriptor's version is the version passed, or "latest"
\* when none or the empty string was passed; the backup field as stated.
C13_VersionOrLatest ==
  (last.op = "deploy" /\ last.result) =>
    /\ deploy_dir.meta.present
    /\ deploy_dir.meta.version =
         (IF last.version \in {NoVersion, ""} THEN "latest" ELSE last.version)
    /\ (deploy_dir.meta.backup = NoBackup) <=> ~NonEmpty(last.before)
    /\ NonEmpty(last.before) => deploy_dir.meta.backup = BackupName(last.at)

\* a successful deploy("") over a deployed tree, and its backup kept
C13_Witness ==
  /\ last.op = "deploy" /\ last.result /\ last.version = ""
  /\ NonEmpty(last.before)
  /\ deploy_dir.meta.version = "latest"
  /\ deploy_dir.meta.backup \in Names(backups)

\* C14: the "deployed" field of status() is the boolean True exactly when
\* deploy_dir exists and has an entry, and the boolean False otherwise.
C14_DeployedIsBoolean ==
  status_deployed(deploy_dir) = PyBool(NonEmpty(deploy_dir))

\* C15: status() and list_backups() are read-only: after a call deploy_dir and
\* backup_dir are what they were when it was called, and a second call of the
\* same query, no deploy or rollback in between, returns what the first did.
C15_QueriesReadOnly ==
  view.op \in {"status", "list_backups"} =>
    /\ Fs = view.seen
    /\ view.result = view.first
    /\ view.op = "status" => view.result = status(deploy_dir, backups, strays)
    /\ view.op = "list_backups" => view.result = list_backups(backups, strays)

\* the second of two status() calls, on a deploy_dir a failed rollback removed
C15_Witness ==
  /\ view.op = "status" /\ view.n = 2
  /\ ~deploy_dir.exists /\ backups # {}

\* C16: list_backups() returns every backup directory exactly once, by name
\* descending, which is newest-created first; the available_backups of
\* status() is the same sequence.
C16_ListNewestFirst ==
  LET l == list_backups(backups, strays)
  IN  /\ Len(l) = Cardinality(backups)
      /\ {l[i] : i \in DOMAIN l} = Names(backups)
      /\ \A i, j \in DOMAIN l : i < j => NameBefore(l[j], l[i])
      /\ \A i, j \in DOMAIN l : i < j =>
            \A x, y \in backups : (x.name = l[i] /\ y.name = l[j]) => x.created > y.created
      /\ status(deploy_dir, backups, strays).available_backups = l

\* two backups and a plain file in backup_dir
C16_Witness ==
  /\ Len(list_backups(backups, strays)) >= 2
  /\ strays # {}
  /\ last.op = "deploy" /\ last.made

\* C17: rollback writes no descriptor of its own: after a rollback that
\* returned True, the metadata of status() is the descriptor stored in the
\* backup restored (null if it holds none), and the tree is that backup's.
C17_RollbackKeepsBackupDescriptor ==
  (last.op = "rollback" /\ last.result) =>
    \E b \in last.bbefore :
      /\ last.arg # NoName => b.name = last.arg
      /\ last.arg = NoName => \A o \in last.bbefore : b.mtime >= o.mtime
      /\ status(deploy_dir, backups, strays).metadata = b.meta
      /\ deploy_dir.items = b.items

\* a successful rollback that brought an older descriptor back
C17_Witness ==
  /\ last.op = "rollback" /\ last.result
  /\ last.before.meta.present
  /\ deploy_dir.meta.present
  /\ deploy_dir.meta.timestamp < last.before.meta.timestamp
  /\ deploy_dir.meta.version # last.before.meta.version

\* the tree a deploy() leaves when its copy and descriptor steps are done
NewTreeInPlace ==
  /\ deploy_dir.exists
  /\ deploy_dir.items = last.source.items
  /\ deploy_dir.meta =
       [present |-> TRUE, version |-> VersionOrLatest(last.version),
        timestamp |-> last.at,
        backup |-> IF last.made THEN BackupName(last.at) ELSE NoBackup]

\* the tree a rollback() leaves when its restore step is done
BackupInPlace ==
  \E b \in backups :
    /\ last.arg # NoName => b.name = last.arg
    /\ Tree(deploy_dir) = [exists |-> TRUE, items |-> b.items, meta |-> b.meta]

C20_BackupsImmutable ==
  /\ last.op \in {"rollback", "init"} => backups = last.bbefore
  /\ last.op = "deploy" =>
       \A b \in backups \ last.bbefore :
         /\ last.made /\ b.created = last.at
         /\ b.snap = last.before
  /\ \A b \in backups : [exists |-> TRUE, items |-> b.items, meta |-> b.meta] = b.snap

\* a successful rollback that changed deploy_dir, two backups in backup_dir,
\* one of them older than the call before
C20_Witness ==
  /\ last.op = "rollback" /\ last.result
  /\ Tree(deploy_dir) # last.before
  /\ Cardinality(backups) = 2
  /\ \E b \in backups : b.created + 2 < last.at

\* C18: when the configuration document exists but lacks one of the keys
\* app_name, deploy_dir, source_dir, backup_dir, max_backups, deployment_hooks,
\* reading that key from the loaded configuration gives the key's default.
C18_MissingKeyReadsDefault ==
  (view.op = "get" /\ config.exists /\ view.key \notin config.keys) =>
    view.result = DefaultValue(view.key)

\* C21: a deploy() that starts on a non-empty deploy_dir in the clock second
\* an existing backup is named after returns False and leaves deploy_dir, the
\* backup of that name and every other backup as they were.
C21_CollisionChangesNothing ==
  ( /\ last.op = "deploy"
    /\ NonEmpty(last.before)
    /\ BackupName(last.at) \in Names(last.bbefore) ) =>
      /\ ~last.result
      /\ Tree(deploy_dir) = last.before
      /\ backups = last.bbefore

\* the copy refused: pre_deploy hooks passed, two backups there, a source given
C21_Witness ==
  /\ last.op = "deploy" /\ last.cause = "collision" /\ last.raised = "FileExistsError"
  /\ last.source.exists
  /\ Cardinality(backups) = 2
  /\ \E b \in backups : b.name = BackupName(last.at) /\ b.snap # last.before

\* C22: filesystem copy and remove errors apart, a non-empty deploy_dir never
\* becomes empty: once a deploy has succeeded, deploy_dir is non-empty after
\* every later deploy or rollback call, whether it succeeds or fails by a hook,
\* a missing source_dir, a missing backup or no backups.
C22_DeployedStaysDeployed ==
  ( /\ last.op \in {"deploy", "rollback"}
    /\ NonEmpty(last.before)
    /\ last.cause # "fs" ) => NonEmpty(deploy_dir)

\* C23: filesystem errors apart, in every state deploy and rollback calls
\* reach from an empty deploy_dir, the deployed field of status() is truthy
\* exactly when its metadata is not null.
C23_DeployedIffMetadata ==
  status(deploy_dir, backups, strays).deployed.truth
    <=> status(deploy_dir, backups, strays).metadata.present

\* C24: whatever max_backups >= 0 is, right after a deploy() that returned
\* True and wrote a backup reference that is not null, the backup referred to
\* is in backup_dir (the prune after its copy did not remove it), so a
\* rollback() called next has a backup to restore.
C24_ReferencedBackupExists ==
  ( /\ last.op = "deploy" /\ last.result
    /\ deploy_dir.meta.backup # NoBackup ) =>
      /\ deploy_dir.meta.backup \in Names(backups)
      /\ ListDirs(backups, strays) # {}

TypeOK ==
  /\ max_backups \in 0..MaxBackupsBound
  /\ clock \in 0..MaxClock
  /\ deploy_dir.exists \in BOOLEAN
  /\ \A b \in backups : b.created < clock /\ b.mtime < b.created
====
